---- MODULE Spec2Model ----
(***************************************************************************)
(* Model of nexsock-protocol-core: the 15-byte header codec with its       *)
(* backends, the streaming and async header readers, MessageFlags, and the *)
(* Transport read and write paths.                                         *)
(*                                                                         *)
(* Representation of machine integers.  A u8 is an integer 0..255.  A u16, *)
(* u32 or u64 VALUE is the tuple of its base-256 digits, most significant  *)
(* digit first (2, 4 or 8 digits): TLC's integers are 32 bits wide, so a   *)
(* u32 or u64 cannot be held in one of them.  MEMORY is a tuple of bytes   *)
(* in address order.  The conversions between values and memory            *)
(* (to_be, from_be_bytes, unaligned reads and writes) depend on the        *)
(* target's native byte order, which is the variable "endian".             *)
(***************************************************************************)
EXTENDS Integers, Sequences, FiniteSets, TLC

VARIABLES
    endian,     \* native byte order of the build target: "little" or "big"
    pc,         \* position of the caller / of the async operation
    hdr,        \* the Header handed to serialize
    wire,       \* [by |-> serializer, bytes |-> its 15-byte output]
    buf,        \* the byte slice or Bytes buffer handed to parse / parse_bytes
    parsed,     \* backend -> result of parse, or Pending
    ret,        \* value returned by the last parse_bytes / read_header / read_message
    calls,      \* number of completed calls
    reader,     \* the AsyncRead source: [data, position]
    rx,         \* the read_exact in flight: [dst |-> buffer, filled |-> bytes stored]
    backend,    \* the HeaderDeserializer the call is instantiated with
    writer,     \* the AsyncWrite sink: the bytes written to it so far
    frame,      \* the Frame handed to write_message: [header, body]
    masks       \* the MessageFlags operands <<a, b, c>>

vars == <<endian, pc, hdr, wire, buf, parsed, ret, calls, reader, rx, backend,
          writer, frame, masks>>

----------------------------------------------------------------------------
(* Bounds of the model *)

\* versions 0..MaxVersion are offered to Header::new (4 does not fit 2 bits)
MaxVersion == 4
\* sample byte streams 0..NumPatterns
NumPatterns == 3
\* longest slice handed to parse
MaxInputLen == 16
\* longest Bytes buffer handed to parse_bytes
MaxBufLen == 31
\* longest stream behind the AsyncRead source of read_header
MaxStream == 17
\* parse_bytes calls made on one buffer
MaxCalls == 3
\* bytes that follow the four magic bytes in a Transport stream
MaxTail == 16
\* largest payload_len of a message on a Transport stream
MaxPayload == 2

----------------------------------------------------------------------------
(* Program constants *)

HEADER_SIZE == 15
LAST_SIX_BITS == 63
LAST_TWO_BITS == 3

U8 == 0..255

\* the test vector of header/mod.rs
HEADER_BYTES == <<6, 0, 9, 0, 0, 2, 0, 0, 0, 0, 0, 0, 0, 0, 1>>

\* b"NEX\0"
MAGIC == <<78, 69, 88, 0>>

Endians == {"little", "big"}

Serializers == {"Standard", "Simd"}
Deserializers == {"Standard", "Optimized", "Simd", "Simd2"}

----------------------------------------------------------------------------
(* u8 arithmetic *)

RECURSIVE BitAnd(_, _)
BitAnd(a, b) ==
    IF a = 0 \/ b = 0 THEN 0
    ELSE (a % 2) * (b % 2) + 2 * BitAnd(a \div 2, b \div 2)

RECURSIVE BitOr(_, _)
BitOr(a, b) ==
    IF a = 0 THEN b
    ELSE IF b = 0 THEN a
    ELSE (IF a % 2 = 1 \/ b % 2 = 1 THEN 1 ELSE 0) + 2 * BitOr(a \div 2, b \div 2)

RECURSIVE Pow2(_)
Pow2(n) == IF n = 0 THEN 1 ELSE 2 * Pow2(n - 1)

\* x << n on a u8: the bits shifted past bit 7 are dropped
Shl8(x, n) == (x * Pow2(n)) % 256

\* x >> n on a u8
Shr8(x, n) == x \div Pow2(n)

----------------------------------------------------------------------------
(* u16 / u32 / u64 values as base-256 digits, most significant first *)

Reverse(s) == [i \in 1..Len(s) |-> s[Len(s) + 1 - i]]

\* (b as uN): zero extension of a u8 to w digits
Widen(b, w) == [i \in 1..w |-> IF i = w THEN b ELSE 0]

\* x << (8 * k) on a w-digit value: the digits shifted out are dropped
ShlBytes(x, k) == [i \in 1..Len(x) |-> IF i + k <= Len(x) THEN x[i + k] ELSE 0]

\* x | y on two values of the same width
WideOr(x, y) == [i \in 1..Len(x) |-> BitOr(x[i], y[i])]

\* x & y on two values of the same width
WideAnd(x, y) == [i \in 1..Len(x) |-> BitAnd(x[i], y[i])]

\* swap_bytes
SwapBytes(x) == Reverse(x)

\* to_be left out: the value is stored as it is
ToBeSkipped(x) == x

\* uN::to_be: the value whose native representation is big-endian
ToBe(x) == IF endian = "little" THEN SwapBytes(x) ELSE x

\* uN::from_be
FromBe(x) == IF endian = "little" THEN SwapBytes(x) ELSE x

\* the native in-memory representation of a value (what an unaligned store writes)
ToNeBytes(x) == IF endian = "little" THEN Reverse(x) ELSE x

\* uN::from_ne_bytes: the value a native load of these bytes yields
FromNeBytes(m) == IF endian = "little" THEN Reverse(m) ELSE m

\* uN::from_be_bytes
FromBeBytes(m) == FromBe(FromNeBytes(m))

----------------------------------------------------------------------------
(* Option and Header *)

None == [tag |-> "None"]
Some(v) == [tag |-> "Some", val |-> v]

Header(id, version, flags, payload_len, sequence_number) ==
    [id |-> id, version |-> version, flags |-> flags,
     payload_len |-> payload_len, sequence_number |-> sequence_number]

\* MessageFlags
MessageFlags(raw) == raw
NONE == <<0, 0>>
COMPRESSED == <<0, 1>>
ENCRYPTED == <<0, 2>>
REQUIRES_ACK == <<0, 4>>
HAS_PAYLOAD == <<0, 8>>

\* contains that asks for a common bit instead of all bits of other
containsAny(self, other) == WideAnd(self, other) # <<0, 0>>

contains(self, other) == WideAnd(self, other) = other
is_empty(self) == self = <<0, 0>>

----------------------------------------------------------------------------
(* Memory *)

\* an uninitialised byte of a MaybeUninit buffer
Uninit == -1

\* ptr.add(off) written with the bytes m
WriteAt(mem, off, m) ==
    [i \in 1..Len(mem) |->
        IF off < i /\ i <= off + Len(m) THEN m[i - off] ELSE mem[i]]

\* the w bytes at ptr.add(off)
ReadAt(mem, off, w) == [i \in 1..w |-> mem[off + i]]

----------------------------------------------------------------------------
(* Serializers *)

\* byte 0 with the version not masked to its two bits
PackIdVersionUnmasked(header) ==
    BitOr(Shl8(BitAnd(header.id, LAST_SIX_BITS), 2), header.version)

\* byte 0: id and version packed together
PackIdVersion(header) ==
    BitOr(Shl8(BitAnd(header.id, LAST_SIX_BITS), 2),
          BitAnd(header.version, LAST_TWO_BITS))

StandardSerialize(header) ==
    LET buffer0 == [i \in 1..HEADER_SIZE |-> Uninit]
        buffer1 == WriteAt(buffer0, 0, <<PackIdVersion(header)>>)
        flags_be == ToBe(header.flags)
        buffer2 == WriteAt(buffer1, 1, ToNeBytes(flags_be))
        payload_be == ToBe(header.payload_len)
        buffer3 == WriteAt(buffer2, 3, ToNeBytes(payload_be))
        seq_be == ToBe(header.sequence_number)
        buffer4 == WriteAt(buffer3, 7, ToNeBytes(seq_be))
    IN  buffer4

SimdSerialize(header) ==
    LET buffer0 == [i \in 1..HEADER_SIZE |-> Uninit]
        buffer1 == WriteAt(buffer0, 0, <<PackIdVersion(header)>>)
        flags_be == ToBe(header.flags)
        buffer2 == WriteAt(buffer1, 1, ToNeBytes(flags_be))
        payload_be == ToBe(header.payload_len)
        buffer3 == WriteAt(buffer2, 3, ToNeBytes(payload_be))
        seq_be == ToBe(header.sequence_number)
        buffer4 == WriteAt(buffer3, 7, ToNeBytes(seq_be))
    IN  buffer4

Serialize(S, header) ==
    IF S = "Standard" THEN StandardSerialize(header) ELSE SimdSerialize(header)

----------------------------------------------------------------------------
(* Deserializers.  Each returns the Option<Header> and the set of indices  *)
(* of the input slice it accessed.                                         *)

Parsed(value, reads) == [value |-> value, reads |-> reads]

\* (first_byte & LAST_SIX_BITS) >> 2
UnpackId(first_byte) == Shr8(BitAnd(first_byte, LAST_SIX_BITS), 2)

\* first_byte & LAST_TWO_BITS
UnpackVersion(first_byte) == BitAnd(first_byte, LAST_TWO_BITS)

StandardParse(bytes) ==
    IF Len(bytes) < HEADER_SIZE THEN Parsed(None, {})
    ELSE
        LET id_version == bytes[1]
            id == UnpackId(id_version)
            version == UnpackVersion(id_version)
            flags == WideOr(ShlBytes(Widen(bytes[2], 2), 1), Widen(bytes[3], 2))
            payload_len ==
                WideOr(WideOr(WideOr(ShlBytes(Widen(bytes[4], 4), 3),
                                     ShlBytes(Widen(bytes[5], 4), 2)),
                              ShlBytes(Widen(bytes[6], 4), 1)),
                       Widen(bytes[7], 4))
            sequence_number ==
                WideOr(WideOr(WideOr(WideOr(WideOr(WideOr(WideOr(
                    ShlBytes(Widen(bytes[8], 8), 7),
                    ShlBytes(Widen(bytes[9], 8), 6)),
                    ShlBytes(Widen(bytes[10], 8), 5)),
                    ShlBytes(Widen(bytes[11], 8), 4)),
                    ShlBytes(Widen(bytes[12], 8), 3)),
                    ShlBytes(Widen(bytes[13], 8), 2)),
                    ShlBytes(Widen(bytes[14], 8), 1)),
                    Widen(bytes[15], 8))
        IN  Parsed(Some(Header(id, version, MessageFlags(flags), payload_len,
                               sequence_number)),
                   0..14)

\* OptimizedHeaderParser::parse taking payload_len one byte too early
OptimizedParseShifted(bytes) ==
    IF Len(bytes) < HEADER_SIZE THEN Parsed(None, {})
    ELSE
        LET header_bytes == ReadAt(bytes, 0, HEADER_SIZE)
            first_byte == header_bytes[1]
            id == UnpackId(first_byte)
            version == UnpackVersion(first_byte)
            flags == FromBeBytes(<<header_bytes[2], header_bytes[3]>>)
            payload_len ==
                FromBeBytes(<<header_bytes[3], header_bytes[4],
                              header_bytes[5], header_bytes[6]>>)
            sequence_number ==
                FromBeBytes(<<header_bytes[8], header_bytes[9],
                              header_bytes[10], header_bytes[11],
                              header_bytes[12], header_bytes[13],
                              header_bytes[14], header_bytes[15]>>)
        IN  Parsed(Some(Header(id, version, MessageFlags(flags), payload_len,
                               sequence_number)),
                   0..(HEADER_SIZE - 1))

OptimizedParse(bytes) ==
    IF Len(bytes) < HEADER_SIZE THEN Parsed(None, {})
    ELSE
        LET header_bytes == ReadAt(bytes, 0, HEADER_SIZE)
            first_byte == header_bytes[1]
            id == UnpackId(first_byte)
            version == UnpackVersion(first_byte)
            flags == FromBeBytes(<<header_bytes[2], header_bytes[3]>>)
            payload_len ==
                FromBeBytes(<<header_bytes[4], header_bytes[5],
                              header_bytes[6], header_bytes[7]>>)
            sequence_number ==
                FromBeBytes(<<header_bytes[8], header_bytes[9],
                              header_bytes[10], header_bytes[11],
                              header_bytes[12], header_bytes[13],
                              header_bytes[14], header_bytes[15]>>)
        IN  Parsed(Some(Header(id, version, MessageFlags(flags), payload_len,
                               sequence_number)),
                   0..(HEADER_SIZE - 1))

\* SimdHeaderParser::parse without its length check: the reads run past the
\* end of a short slice (the memory behind it is taken to hold zeroes)
SimdParseUnchecked(bytes) ==
    LET mem == bytes \o [i \in 1..HEADER_SIZE |-> 0]
        first_byte == mem[1]
        id == UnpackId(first_byte)
        version == UnpackVersion(first_byte)
        flags == FromBeBytes(ReadAt(mem, 1, 2))
        payload_len == FromBeBytes(ReadAt(mem, 3, 4))
        sequence_number == FromBeBytes(ReadAt(mem, 7, 8))
    IN  Parsed(Some(Header(id, version, MessageFlags(flags), payload_len,
                           sequence_number)),
               {0} \cup 1..2 \cup 3..6 \cup 7..14)

SimdParse(bytes) ==
    IF Len(bytes) < HEADER_SIZE THEN Parsed(None, {})
    ELSE
        LET first_byte == bytes[1]
            id == UnpackId(first_byte)
            version == UnpackVersion(first_byte)
            flags_bytes == ReadAt(bytes, 1, 2)
            flags == FromBeBytes(flags_bytes)
            payload_bytes == ReadAt(bytes, 3, 4)
            payload_len == FromBeBytes(payload_bytes)
            seq_bytes == ReadAt(bytes, 7, 8)
            sequence_number == FromBeBytes(seq_bytes)
        IN  Parsed(Some(Header(id, version, MessageFlags(flags), payload_len,
                               sequence_number)),
                   {0} \cup 1..2 \cup 3..6 \cup 7..14)

Simd2Parse(bytes) ==
    IF Len(bytes) < HEADER_SIZE THEN Parsed(None, {})
    ELSE
        LET first_byte == bytes[1]
            id == UnpackId(first_byte)
            version == UnpackVersion(first_byte)
            \* Simd::from_slice(&buf[1..9]); lane k is simd_vector[k + 1]
            simd_vector == ReadAt(bytes, 1, 8)
            flags_bytes == <<simd_vector[2], simd_vector[1]>>
            flags == FromBeBytes(flags_bytes)
            payload_bytes == <<simd_vector[6], simd_vector[5],
                               simd_vector[4], simd_vector[3]>>
            payload_len == FromBeBytes(payload_bytes)
            seq_bytes == ReadAt(bytes, 7, 8)
            sequence_number == FromBeBytes(seq_bytes)
        IN  Parsed(Some(Header(id, version, MessageFlags(flags), payload_len,
                               sequence_number)),
                   {0} \cup 1..8 \cup 7..14)

Parse(D, bytes) ==
    CASE D = "Standard" -> StandardParse(bytes)
      [] D = "Optimized" -> OptimizedParse(bytes)
      [] D = "Simd" -> SimdParse(bytes)
      [] D = "Simd2" -> Simd2Parse(bytes)

----------------------------------------------------------------------------
(* Inputs *)

\* byte i (from 0) of sample stream k: the test vector, all ones, or a
\* stream whose neighbouring bytes all differ
SampleByte(k, i) ==
    IF k = 0 THEN (IF i < HEADER_SIZE THEN HEADER_BYTES[i + 1] ELSE 0)
    ELSE IF k = 1 THEN 255
    ELSE ((k - 1) * (16 * i + 9)) % 256

\* the n bytes of sample stream k that start at byte "from"
SampleBytes(k, from, n) == [i \in 1..n |-> SampleByte(k, from + i - 1)]

Pending == [tag |-> "Pending"]

----------------------------------------------------------------------------
(* Spec: a Header is built, serialized by one backend, and the bytes are   *)
(* parsed by one backend.                                                  *)

HeaderInputs ==
    { Header(id, version, SampleBytes(k, 1, 2), SampleBytes(k, 3, 4),
             SampleBytes(k, 7, 8)) :
        id \in U8, version \in 0..MaxVersion, k \in 0..NumPatterns }

Init ==
    /\ endian \in Endians
    /\ pc = "new"
    /\ hdr \in HeaderInputs
    /\ wire = [by |-> "none", bytes |-> <<>>]
    /\ buf = <<>>
    /\ parsed = [D \in Deserializers |-> Pending]
    /\ ret = Pending
    /\ calls = 0
    /\ reader = [data |-> <<>>, position |-> 0]
    /\ rx = [dst |-> <<>>, filled |-> 0]
    /\ backend = "Standard"
    /\ writer = <<>>
    /\ frame = [header |-> <<>>, body |-> <<>>]
    /\ masks = <<NONE, NONE, NONE>>

\* header.to_bytes::<S>()
ToBytes(S) ==
    /\ pc = "new"
    /\ wire' = [by |-> S, bytes |-> Serialize(S, hdr)]
    /\ pc' = "serialized"
    /\ UNCHANGED <<writer, frame, masks, endian, hdr, buf, parsed, ret, calls, reader, rx, backend>>

\* Header::parse::<D>(&bytes)
ParseWire(D) ==
    /\ pc = "serialized"
    /\ buf' = wire.bytes
    /\ parsed' = [parsed EXCEPT ![D] = Parse(D, wire.bytes)]
    /\ backend' = D
    /\ pc' = "parsed"
    /\ UNCHANGED <<writer, frame, masks, endian, hdr, wire, ret, calls, reader, rx>>

Next ==
    \/ \E S \in Serializers : ToBytes(S)
    \/ \E D \in Deserializers : ParseWire(D)

Spec == Init /\ [][Next]_vars

----------------------------------------------------------------------------
(* SpecParse: a byte slice is handed to the parse of each backend.         *)

InputSlices ==
    { <<b0>> \o SampleBytes(k, 1, HEADER_SIZE - 1) :
        b0 \in U8, k \in 0..NumPatterns }
    \cup { SampleBytes(k, 0, n) : k \in 0..NumPatterns, n \in 0..MaxInputLen }

InitParse ==
    /\ endian \in Endians
    /\ pc = "slice"
    /\ buf \in InputSlices
    /\ hdr = Header(0, 0, NONE, <<0, 0, 0, 0>>, <<0, 0, 0, 0, 0, 0, 0, 0>>)
    /\ wire = [by |-> "none", bytes |-> <<>>]
    /\ parsed = [D \in Deserializers |-> Pending]
    /\ ret = Pending
    /\ calls = 0
    /\ reader = [data |-> <<>>, position |-> 0]
    /\ rx = [dst |-> <<>>, filled |-> 0]
    /\ backend = "Standard"
    /\ writer = <<>>
    /\ frame = [header |-> <<>>, body |-> <<>>]
    /\ masks = <<NONE, NONE, NONE>>

\* D::parse(&buf)
ParseSlice(D) ==
    /\ pc = "slice"
    /\ parsed[D] = Pending
    /\ parsed' = [parsed EXCEPT ![D] = Parse(D, buf)]
    /\ backend' = D
    /\ UNCHANGED <<writer, frame, masks, endian, pc, hdr, wire, buf, ret, calls, reader, rx>>

NextParse == \E D \in Deserializers : ParseSlice(D)

SpecParse == InitParse /\ [][NextParse]_vars

----------------------------------------------------------------------------
(* SpecReparse: a byte slice is parsed by one backend and the Header       *)
(* obtained is serialized again.                                           *)

\* D::parse(&buf)
ParseOne(D) ==
    /\ pc = "slice"
    /\ parsed' = [parsed EXCEPT ![D] = Parse(D, buf)]
    /\ backend' = D
    /\ pc' = "slice.parsed"
    /\ UNCHANGED <<writer, frame, masks, endian, hdr, wire, buf, ret, calls, reader, rx>>

\* header.to_bytes::<S>() on the Header that parse returned
SerializeParsed(S) ==
    /\ pc = "slice.parsed"
    /\ parsed[backend].value # None
    /\ hdr' = parsed[backend].value.val
    /\ wire' = [by |-> S, bytes |-> Serialize(S, parsed[backend].value.val)]
    /\ pc' = "reserialized"
    /\ UNCHANGED <<writer, frame, masks, endian, buf, parsed, ret, calls, reader, rx, backend>>

NextReparse ==
    \/ \E D \in Deserializers : ParseOne(D)
    \/ \E S \in Serializers : SerializeParsed(S)

SpecReparse == InitParse /\ [][NextReparse]_vars

----------------------------------------------------------------------------
(* SpecBytes: parse_bytes is called repeatedly on one Bytes buffer.        *)

\* Bytes::advance(cnt)
advance(bytes, cnt) == SubSeq(bytes, cnt + 1, Len(bytes))

InitBytes ==
    /\ endian \in Endians
    /\ pc = "bytes"
    /\ buf \in { SampleBytes(k, 0, n) : k \in 0..NumPatterns, n \in 0..MaxBufLen }
    /\ hdr = Header(0, 0, NONE, <<0, 0, 0, 0>>, <<0, 0, 0, 0, 0, 0, 0, 0>>)
    /\ wire = [by |-> "none", bytes |-> <<>>]
    /\ parsed = [D \in Deserializers |-> Pending]
    /\ ret = Pending
    /\ calls = 0
    /\ reader = [data |-> <<>>, position |-> 0]
    /\ rx = [dst |-> <<>>, filled |-> 0]
    /\ backend = "Standard"
    /\ writer = <<>>
    /\ frame = [header |-> <<>>, body |-> <<>>]
    /\ masks = <<NONE, NONE, NONE>>

\* parse_bytes with the cursor left where it was
ParseBytesNoAdvance(D) ==
    /\ pc = "bytes"
    /\ calls < MaxCalls
    /\ backend' = D
    /\ calls' = calls + 1
    /\ IF Len(buf) < HEADER_SIZE
       THEN ret' = None /\ buf' = buf
       ELSE LET slice == SubSeq(buf, 1, HEADER_SIZE)
                header == Parse(D, slice).value
            IN  ret' = header /\ buf' = buf
    /\ UNCHANGED <<writer, frame, masks, endian, pc, hdr, wire, parsed, reader, rx>>

\* D::parse_bytes(&mut buf)
ParseBytes(D) ==
    /\ pc = "bytes"
    /\ calls < MaxCalls
    /\ backend' = D
    /\ calls' = calls + 1
    /\ IF Len(buf) < HEADER_SIZE
       THEN ret' = None /\ buf' = buf
       ELSE LET slice == SubSeq(buf, 1, HEADER_SIZE)
                header == Parse(D, slice).value
            IN  IF header = None
                THEN ret' = None /\ buf' = buf
                ELSE ret' = Some(header.val) /\ buf' = advance(buf, HEADER_SIZE)
    /\ UNCHANGED <<writer, frame, masks, endian, pc, hdr, wire, parsed, reader, rx>>

NextBytes == \E D \in Deserializers : ParseBytes(D)

SpecBytes == InitBytes /\ [][NextBytes]_vars

----------------------------------------------------------------------------
(* The AsyncRead source and read_exact                                     *)

Ok(v) == [tag |-> "Ok", val |-> v]

\* ProtocolError::Io(std::io::Error::new(kind, msg))
IoError(kind, msg) == [tag |-> "Err", category |-> "Io", kind |-> kind, msg |-> msg]

\* the error of read_exact at end of stream
UnexpectedEof == IoError("UnexpectedEof", "failed to fill whole buffer")

Min(a, b) == IF a < b THEN a ELSE b

available == Len(reader.data) - reader.position

ReadExactStates ==
    {"header.read_exact", "magic.read_exact", "message.read_exact",
     "body.read_exact"}

\* read_exact(reader, dst) begins
ReadExact(dst) == [dst |-> dst, filled |-> 0]

\* one poll_read that delivers read_len bytes; a source may deliver fewer
\* bytes than the buffer has room for
PollRead ==
    /\ pc \in ReadExactStates
    /\ rx.filled < Len(rx.dst)
    /\ reader.position < Len(reader.data)
    /\ \E read_len \in 1..Min(Len(rx.dst) - rx.filled, available) :
        /\ rx' = [dst |-> WriteAt(rx.dst, rx.filled,
                                  SubSeq(reader.data, reader.position + 1,
                                         reader.position + read_len)),
                  filled |-> rx.filled + read_len]
        /\ reader' = [reader EXCEPT !.position = reader.position + read_len]
    /\ UNCHANGED <<writer, frame, masks, endian, pc, hdr, wire, buf, parsed, ret, calls, backend>>

\* poll_read returns Ok(0) at the end of the stream: read_exact fails and the
\* failure is returned by the caller's "?"
PollEof ==
    /\ pc \in ReadExactStates
    /\ rx.filled < Len(rx.dst)
    /\ reader.position >= Len(reader.data)
    /\ ret' = UnexpectedEof
    /\ pc' = "returned"
    /\ UNCHANGED <<writer, frame, masks, endian, hdr, wire, buf, parsed, calls, reader, rx, backend>>

----------------------------------------------------------------------------
(* SpecReader: read_header on a byte-stream source.                        *)

InitReader ==
    /\ endian \in Endians
    /\ pc = "idle"
    /\ reader \in { [data |-> SampleBytes(k, 0, n), position |-> 0] :
                        k \in 0..NumPatterns, n \in 0..MaxStream }
    /\ hdr = Header(0, 0, NONE, <<0, 0, 0, 0>>, <<0, 0, 0, 0, 0, 0, 0, 0>>)
    /\ wire = [by |-> "none", bytes |-> <<>>]
    /\ buf = <<>>
    /\ parsed = [D \in Deserializers |-> Pending]
    /\ ret = Pending
    /\ calls = 0
    /\ rx = [dst |-> <<>>, filled |-> 0]
    /\ backend = "Standard"
    /\ writer = <<>>
    /\ frame = [header |-> <<>>, body |-> <<>>]
    /\ masks = <<NONE, NONE, NONE>>

\* read_header without buf.resize(HEADER_SIZE, 0): the buffer has length 0
ReadHeaderNoResize(D) ==
    /\ pc = "idle"
    /\ backend' = D
    /\ rx' = ReadExact(<<>>)
    /\ pc' = "header.read_exact"
    /\ UNCHANGED <<writer, frame, masks, endian, hdr, wire, buf, parsed, ret, calls, reader>>

\* D::read_header(&mut reader): the buffer is allocated and read_exact begins
ReadHeader(D) ==
    /\ pc = "idle"
    /\ backend' = D
    /\ rx' = ReadExact([i \in 1..HEADER_SIZE |-> 0])
    /\ pc' = "header.read_exact"
    /\ UNCHANGED <<writer, frame, masks, endian, hdr, wire, buf, parsed, ret, calls, reader>>

\* read_exact has filled the buffer: Self::parse(&buf).ok_or_else(..)
ReadHeaderParse ==
    /\ pc = "header.read_exact"
    /\ rx.filled = Len(rx.dst)
    /\ LET header == Parse(backend, rx.dst).value
       IN  ret' = IF header = None
                  THEN IoError("InvalidData", "Failed to parse header")
                  ELSE Ok(header.val)
    /\ pc' = "returned"
    /\ calls' = calls + 1
    /\ UNCHANGED <<writer, frame, masks, endian, hdr, wire, buf, parsed, reader, rx, backend>>

NextReader ==
    \/ \E D \in Deserializers : ReadHeader(D)
    \/ PollRead
    \/ PollEof
    \/ ReadHeaderParse

SpecReader == InitReader /\ [][NextReader]_vars

----------------------------------------------------------------------------
(* SpecTransport: read_message on a Transport.                             *)

\* first four bytes offered to read_magic: the magic, b"BAD!", and the magic
\* with its last or its first byte changed
MagicInputs == {MAGIC, <<66, 65, 68, 33>>, <<78, 69, 88, 1>>, <<79, 69, 88, 0>>}

TransportStreams ==
    { SubSeq(m \o SampleBytes(k, 0, MaxTail), 1, n) :
        m \in MagicInputs, k \in 0..NumPatterns, n \in 0..(4 + MaxTail) }

\* the header of the Transport tests: id 5, version 1, sequence number 123
TestHeader(flags, n) ==
    Header(5, 1, flags, <<0, 0, 0, n>>, <<0, 0, 0, 0, 0, 0, 0, 123>>)

MessageHeaders ==
    { TestHeader(f, n) :
        f \in {NONE, HAS_PAYLOAD, WideOr(COMPRESSED, HAS_PAYLOAD), ENCRYPTED},
        n \in 0..MaxPayload }

\* header.flags().contains(HAS_PAYLOAD) && header.payload_len() > 0
HasPayload(header) ==
    contains(header.flags, HAS_PAYLOAD) /\ header.payload_len # <<0, 0, 0, 0>>

\* the encoded body that follows the header on the wire
BodyOf(header) ==
    IF HasPayload(header) THEN SampleBytes(2, 0, header.payload_len[4]) ELSE <<>>

\* one message as the tests lay it out: magic, header.to_bytes(), payload
Message(header) == MAGIC \o Serialize("Standard", header) \o BodyOf(header)

Prefixes(stream) == { SubSeq(stream, 1, n) : n \in 0..Len(stream) }

\* every message, followed by one more byte, and cut at every position
MessageStreams ==
    UNION { Prefixes(Message(h) \o <<7>>) : h \in MessageHeaders }

\* the outcome of a call that panicked instead of returning
Panic(msg) == [tag |-> "Panic", msg |-> msg]

\* the empty body ()
Unit == [tag |-> "()"]

InitTransport ==
    /\ endian \in Endians
    /\ pc = "idle"
    /\ reader \in { [data |-> d, position |-> 0] :
                        d \in TransportStreams \cup MessageStreams }
    /\ hdr = Header(0, 0, NONE, <<0, 0, 0, 0>>, <<0, 0, 0, 0, 0, 0, 0, 0>>)
    /\ wire = [by |-> "none", bytes |-> <<>>]
    /\ buf = <<>>
    /\ parsed = [D \in Deserializers |-> Pending]
    /\ ret = Pending
    /\ calls = 0
    /\ rx = [dst |-> <<>>, filled |-> 0]
    /\ backend = "Standard"
    /\ writer = <<>>
    /\ frame = [header |-> <<>>, body |-> <<>>]
    /\ masks = <<NONE, NONE, NONE>>

\* read_message is called: read_magic allocates [0u8; 4] and read_exact begins
ReadMessage ==
    /\ pc = "idle"
    /\ rx' = ReadExact(<<0, 0, 0, 0>>)
    /\ pc' = "magic.read_exact"
    /\ UNCHANGED <<writer, frame, masks, endian, hdr, wire, buf, parsed, ret, calls, reader, backend>>

\* read_magic comparing only the three letters of the magic
MagicCheckLetters ==
    /\ pc = "magic.read_exact"
    /\ rx.filled = Len(rx.dst)
    /\ LET magic == rx.dst
       IN  IF SubSeq(magic, 1, 3) # SubSeq(MAGIC, 1, 3)
           THEN /\ ret' = IoError("InvalidData", "Invalid protocol magic bytes")
                /\ pc' = "returned"
                /\ rx' = rx
           ELSE /\ ret' = ret
                /\ rx' = ReadExact(<<>>)
                /\ pc' = "message.read_exact"
    /\ UNCHANGED <<writer, frame, masks, endian, hdr, wire, buf, parsed, calls, reader, backend>>

\* read_magic has its four bytes: they are compared with the magic; on a
\* match read_message allocates BytesMut::with_capacity(HEADER_SIZE), a buffer
\* of length 0, and read_exact begins on it
MagicCheck ==
    /\ pc = "magic.read_exact"
    /\ rx.filled = Len(rx.dst)
    /\ LET magic == rx.dst
       IN  IF magic # MAGIC
           THEN /\ ret' = IoError("InvalidData", "Invalid protocol magic bytes")
                /\ pc' = "returned"
                /\ rx' = rx
           ELSE /\ ret' = ret
                /\ rx' = ReadExact(<<>>)
                /\ pc' = "message.read_exact"
    /\ UNCHANGED <<writer, frame, masks, endian, hdr, wire, buf, parsed, calls, reader, backend>>

\* read_exact on the header buffer is done: Header::parse(..).unwrap(), then
\* the payload test; read_body allocates BytesMut::with_capacity(payload_len),
\* again a buffer of length 0
MessageHeader ==
    /\ pc = "message.read_exact"
    /\ rx.filled = Len(rx.dst)
    /\ LET header == Parse("Standard", rx.dst).value
       IN  IF header = None
           THEN /\ ret' = Panic("Option::unwrap on None")
                /\ pc' = "panicked"
                /\ rx' = rx
           ELSE IF contains(header.val.flags, HAS_PAYLOAD)
                    /\ header.val.payload_len # <<0, 0, 0, 0>>
                THEN /\ ret' = ret
                     /\ rx' = ReadExact(<<>>)
                     /\ pc' = "body.read_exact"
                ELSE /\ ret' = Ok(Unit)
                     /\ pc' = "returned"
                     /\ rx' = rx
    /\ UNCHANGED <<writer, frame, masks, endian, hdr, wire, buf, parsed, calls, reader, backend>>

NextTransport ==
    \/ ReadMessage
    \/ PollRead
    \/ PollEof
    \/ MagicCheck
    \/ MessageHeader

SpecTransport == InitTransport /\ [][NextTransport]_vars

----------------------------------------------------------------------------
(* SpecSession: read_message is called again and again on one Transport.   *)

\* two messages back to back; a message, or the first bytes of the magic,
\* behind four bytes that are not the magic
SessionStreams ==
    { Message(h1) \o Message(h2) : h1 \in MessageHeaders, h2 \in MessageHeaders }
    \cup { m \o Message(h) : m \in MagicInputs \ {MAGIC}, h \in MessageHeaders }
    \cup { m \o SubSeq(MAGIC, 1, n) : m \in MagicInputs \ {MAGIC}, n \in 0..3 }

InitSession ==
    /\ endian \in Endians
    /\ pc = "idle"
    /\ reader \in { [data |-> d, position |-> 0] : d \in SessionStreams }
    /\ hdr = Header(0, 0, NONE, <<0, 0, 0, 0>>, <<0, 0, 0, 0, 0, 0, 0, 0>>)
    /\ wire = [by |-> "none", bytes |-> <<>>]
    /\ buf = <<>>
    /\ parsed = [D \in Deserializers |-> Pending]
    /\ ret = Pending
    /\ calls = 0
    /\ rx = [dst |-> <<>>, filled |-> 0]
    /\ backend = "Standard"
    /\ writer = <<>>
    /\ frame = [header |-> <<>>, body |-> <<>>]
    /\ masks = <<NONE, NONE, NONE>>

\* the caller has its result and calls read_message on the same Transport
\* again: the reader is where the call before left it
ReadMessageAgain ==
    /\ pc = "returned"
    /\ calls + 1 < MaxCalls
    /\ calls' = calls + 1
    /\ ret' = Pending
    /\ rx' = ReadExact(<<0, 0, 0, 0>>)
    /\ pc' = "magic.read_exact"
    /\ UNCHANGED <<writer, frame, masks, endian, hdr, wire, buf, parsed, reader, backend>>

NextSession ==
    \/ ReadMessage
    \/ ReadMessageAgain
    \/ PollRead
    \/ PollEof
    \/ MagicCheck
    \/ MessageHeader

SpecSession == InitSession /\ [][NextSession]_vars

----------------------------------------------------------------------------
(* SpecWriter: write_message on a Transport.                               *)

\* Frame::new(header, body); the body is held as its encoded bytes
Frame(header, body) == [header |-> header, body |-> body]

Frames ==
    { Frame(Serialize("Standard", h), SampleBytes(k, 0, n)) :
        h \in MessageHeaders, k \in 0..NumPatterns, n \in 0..MaxPayload }

InitWriter ==
    /\ endian \in Endians
    /\ pc = "ready"
    /\ hdr = Header(0, 0, NONE, <<0, 0, 0, 0>>, <<0, 0, 0, 0, 0, 0, 0, 0>>)
    /\ wire = [by |-> "none", bytes |-> <<>>]
    /\ buf = <<>>
    /\ parsed = [D \in Deserializers |-> Pending]
    /\ ret = Pending
    /\ calls = 0
    /\ reader = [data |-> <<>>, position |-> 0]
    /\ rx = [dst |-> <<>>, filled |-> 0]
    /\ backend = "Standard"
    /\ writer = <<>>
    /\ frame = [header |-> <<>>, body |-> <<>>]
    /\ masks = <<NONE, NONE, NONE>>

\* transport.write_message(message): the body of the function declares a
\* local array and writes nothing
WriteMessage(message) ==
    /\ pc = "ready"
    /\ calls < MaxCalls
    /\ frame' = message
    /\ writer' = writer
    /\ calls' = calls + 1
    /\ UNCHANGED <<masks, endian, pc, hdr, wire, buf, parsed, ret, reader, rx, backend>>

NextWriter == \E message \in Frames : WriteMessage(message)

SpecWriter == InitWriter /\ [][NextWriter]_vars

----------------------------------------------------------------------------
(* SpecFlags: the MessageFlags operations applied to three masks.          *)

\* impl BitOr for MessageFlags
bitor(self, rhs) == MessageFlags(WideOr(self, rhs))

\* impl BitAnd for MessageFlags
bitand(self, rhs) == MessageFlags(WideAnd(self, rhs))

\* impl Deref / AsRef<u16> for MessageFlags: the raw u16
deref(self) == self

\* the named masks, the mask of test_flags, and the flags fields of the
\* sample streams (which set bits that have no name)
FlagMasks ==
    {NONE, COMPRESSED, ENCRYPTED, REQUIRES_ACK, HAS_PAYLOAD,
     WideOr(COMPRESSED, ENCRYPTED)}
    \cup { SampleBytes(k, 1, 2) : k \in 0..NumPatterns }

InitFlags ==
    /\ endian \in Endians
    /\ pc = "flags"
    /\ masks \in FlagMasks \X FlagMasks \X FlagMasks
    /\ hdr = Header(0, 0, NONE, <<0, 0, 0, 0>>, <<0, 0, 0, 0, 0, 0, 0, 0>>)
    /\ wire = [by |-> "none", bytes |-> <<>>]
    /\ buf = <<>>
    /\ parsed = [D \in Deserializers |-> Pending]
    /\ ret = Pending
    /\ calls = 0
    /\ reader = [data |-> <<>>, position |-> 0]
    /\ rx = [dst |-> <<>>, filled |-> 0]
    /\ backend = "Standard"
    /\ writer = <<>>
    /\ frame = [header |-> <<>>, body |-> <<>>]

\* the operations of MessageFlags are applied to a, b and c
FlagOps ==
    /\ pc = "flags"
    /\ LET a == masks[1]
           b == masks[2]
           c == masks[3]
       IN  ret' = [contains_ab |-> contains(a, b),
                   contains_ac |-> contains(a, c),
                   contains_none |-> contains(a, NONE),
                   contains_or |-> contains(bitor(a, b), a),
                   or_ab |-> bitor(a, b),
                   or_ba |-> bitor(b, a),
                   or_ab_c |-> bitor(bitor(a, b), c),
                   or_a_bc |-> bitor(a, bitor(b, c)),
                   or_aa |-> bitor(a, a),
                   and_ab |-> bitand(a, b),
                   empty_a |-> is_empty(a),
                   raw_a |-> deref(MessageFlags(deref(a)))]
    /\ pc' = "flags.done"
    /\ UNCHANGED <<writer, frame, masks, endian, hdr, wire, buf, parsed, calls, reader, rx, backend>>

NextFlags == FlagOps

SpecFlags == InitFlags /\ [][NextFlags]_vars

----------------------------------------------------------------------------
(* The wire layout of section 4.3, stated on the digits of the fields      *)

LayoutByte0(header) == (header.id % 64) * 4 + (header.version % 4)

LayoutBytes(header) ==
    <<LayoutByte0(header)>> \o header.flags \o header.payload_len
        \o header.sequence_number

LayoutHeader(b) ==
    Header(b[1] \div 4, b[1] % 4, SubSeq(b, 2, 3), SubSeq(b, 4, 7),
           SubSeq(b, 8, 15))

LiteralHeader ==
    Header(1, 2, WideOr(COMPRESSED, HAS_PAYLOAD), <<0, 0, 2, 0>>,
           <<0, 0, 0, 0, 0, 0, 0, 1>>)

----------------------------------------------------------------------------
(* Claims *)

\* C1: for every Header with id in 0..63 and version in 0..3, parsing the
\* bytes of serialize(h) with any deserializer backend, whatever serializer
\* produced them, returns a Header equal to h.
C1_RoundTrip ==
    (pc = "parsed" /\ hdr.id \in 0..63 /\ hdr.version \in 0..3)
        => parsed[backend].value = Some(hdr)

\* C2: every serializer returns exactly 15 bytes: byte 0 is
\* ((id & 0x3F) << 2) | (version & 0x03), then flags, payload_len and
\* sequence_number big-endian; the literal header serializes to the test
\* vector.
C2_WireLayout ==
    pc \in {"serialized", "parsed"} =>
        /\ Len(wire.bytes) = 15
        /\ \A i \in 1..15 : wire.bytes[i] \in U8
        /\ wire.bytes = LayoutBytes(hdr)
        /\ (hdr = LiteralHeader =>
                wire.bytes = <<6, 0, 9, 0, 0, 2, 0, 0, 0, 0, 0, 0, 0, 0, 1>>)

C2_Witness ==
    /\ pc = "serialized"
    /\ wire.by = "Simd"
    /\ endian = "little"
    /\ hdr = LiteralHeader
    /\ wire.bytes = HEADER_BYTES

\* C7: byte 0 of serialize(h) depends only on the low 6 bits of h.id and the
\* low 2 bits of h.version; id = 200 gives 0x20 | (version & 0x03), the byte 0
\* of id = 8; the id bits and the version bits do not run into each other or
\* out of the byte.
C7_Truncation ==
    pc \in {"serialized", "parsed"} =>
        LET b0 == wire.bytes[1]
            low == [hdr EXCEPT !.id = hdr.id % 64, !.version = hdr.version % 4]
        IN  /\ b0 \in U8
            /\ b0 = Serialize(wire.by, low)[1]
            /\ b0 \div 4 = hdr.id % 64
            /\ b0 % 4 = hdr.version % 4
            /\ (hdr.id = 200 =>
                    /\ b0 = 32 + (hdr.version % 4)
                    /\ b0 = Serialize(wire.by, [hdr EXCEPT !.id = 8])[1])

C7_Witness ==
    /\ pc = "serialized"
    /\ hdr.id = 200
    /\ hdr.version = 4
    /\ wire.bytes[1] = 32

\* C3: for every 15-byte input b, parse(b) returns the Header whose id is
\* bits 2-7 of b[0], version bits 0-1 of b[0], flags the big-endian u16 of
\* b[1..3], payload_len the big-endian u32 of b[3..7] and sequence_number the
\* big-endian u64 of b[7..15].
C3_DecodeLayout ==
    (pc = "slice" /\ Len(buf) = 15 /\ parsed["Standard"] # Pending)
        => parsed["Standard"].value = Some(LayoutHeader(buf))

\* C4: for every 15-byte input, the Standard, Optimized and Simd parse return
\* Headers equal in all five fields.
C4_BackendsAgree ==
    (pc = "slice" /\ Len(buf) = 15) =>
        \A D1, D2 \in {"Standard", "Optimized", "Simd"} :
            (parsed[D1] # Pending /\ parsed[D2] # Pending)
                => parsed[D1].value = parsed[D2].value

C4_Witness ==
    /\ pc = "slice"
    /\ Len(buf) = 15
    /\ buf[1] = 255
    /\ \A D \in {"Standard", "Optimized", "Simd"} :
            /\ parsed[D] # Pending
            /\ parsed[D].value.tag = "Some"
            /\ parsed[D].value.val.payload_len = <<57, 73, 89, 105>>

\* C5: for every 15-byte input, Simd2HeaderParser::parse returns the same
\* Header as StandardHeaderParser::parse.
C5_Simd2Agrees ==
    (pc = "slice" /\ Len(buf) = 15
        /\ parsed["Simd2"] # Pending /\ parsed["Standard"] # Pending)
        => parsed["Simd2"].value = parsed["Standard"].value

\* C6: for every input of length 0..14 every backend returns None, and it
\* has read no byte of the input: no backend ever reads an index at or
\* beyond the input length.
C6_ShortInput ==
    pc = "slice" =>
        \A D \in Deserializers :
            parsed[D] # Pending =>
                /\ parsed[D].reads \subseteq 0..(Len(buf) - 1)
                /\ (Len(buf) < 15 =>
                        parsed[D].value = None /\ parsed[D].reads = {})

C6_Witness ==
    /\ pc = "slice"
    /\ Len(buf) = 14
    /\ \A D \in Deserializers : parsed[D] = Parsed(None, {})

\* C8: parse_bytes advances the buffer only on success: with at least 15
\* bytes it returns the Header parsed from the first 15 and the buffer
\* afterwards is the former buffer minus its first 15 bytes; with fewer it
\* returns None and the buffer is unchanged; for every call of a sequence.
C8_ParseBytesFrame ==
    [][calls' = calls + 1 =>
        IF Len(buf) >= 15
        THEN /\ ret' = Some(Parse(backend', SubSeq(buf, 1, 15)).value.val)
             /\ Len(buf') = Len(buf) - 15
             /\ buf = SubSeq(buf, 1, 15) \o buf'
        ELSE /\ ret' = None
             /\ buf' = buf]_vars

C8_Witness ==
    /\ pc = "bytes"
    /\ calls = 2
    /\ ret.tag = "Some"
    /\ ret.val.id = 15
    /\ buf = <<>>

\* C9: read_header consumes at most 15 bytes of the source; if the source
\* ends before 15 bytes, however the bytes arrive, the result is an I/O
\* failure; if 15 bytes are obtained exactly 15 are consumed and the result
\* is the Header parse returns for them; an InvalidData failure is returned
\* only for bytes that parse to None.
C9_ReadHeader ==
    /\ reader.position <= 15
    /\ reader.position = rx.filled
    /\ pc = "returned" =>
        /\ ret.tag \in {"Ok", "Err"}
        /\ (Len(reader.data) < 15 =>
                /\ ret.tag = "Err"
                /\ ret.category = "Io"
                /\ ret.kind = "UnexpectedEof")
        /\ (Len(reader.data) >= 15 =>
                /\ reader.position = 15
                /\ rx.dst = SubSeq(reader.data, 1, 15)
                /\ LET header == Parse(backend, SubSeq(reader.data, 1, 15)).value
                   IN  IF header = None
                       THEN ret = IoError("InvalidData", "Failed to parse header")
                       ELSE ret = Ok(header.val))

C9_Witness ==
    /\ pc = "returned"
    /\ Len(reader.data) = 14
    /\ reader.position = 14
    /\ ret = UnexpectedEof

\* C10: when the first 4 bytes of the stream are not 'N','E','X',0,
\* read_message fails with the I/O failure "invalid protocol magic", and
\* exactly 4 bytes have been consumed from the reader.
C10_MagicRejection ==
    /\ (pc \in {"returned", "panicked"} /\ Len(reader.data) >= 4
            /\ SubSeq(reader.data, 1, 4) # <<78, 69, 88, 0>>)
        => /\ ret = IoError("InvalidData", "Invalid protocol magic bytes")
           /\ reader.position = 4
    /\ (ret = IoError("InvalidData", "Invalid protocol magic bytes"))
        => /\ pc = "returned"
           /\ reader.position = 4
           /\ SubSeq(reader.data, 1, 4) # <<78, 69, 88, 0>>

C10_Witness ==
    /\ pc = "returned"
    /\ ret = IoError("InvalidData", "Invalid protocol magic bytes")
    /\ SubSeq(reader.data, 1, 4) = <<66, 65, 68, 33>>
    /\ Len(reader.data) = 7
    /\ reader.position = 4

\* C11: after a valid magic, read_message reads exactly 15 bytes from the
\* reader and parses them into the Header; when no Header is obtained it
\* returns an I/O failure to its caller.
C11_HeaderStep ==
    (pc \in {"returned", "panicked"} /\ Len(reader.data) >= 4 + 15
        /\ SubSeq(reader.data, 1, 4) = <<78, 69, 88, 0>>)
        => /\ reader.position >= 4 + 15
           /\ \/ ret.tag = "Ok"
              \/ ret.tag = "Err"

\* the reader's stream begins with the whole message of header h
BeginsWith(h) ==
    /\ Len(reader.data) >= Len(Message(h))
    /\ SubSeq(reader.data, 1, Len(Message(h))) = Message(h)

Ended == pc \in {"returned", "panicked"}

\* C12: when the header's flags contain HAS_PAYLOAD and payload_len > 0,
\* read_message reads exactly payload_len bytes after the header, 4 + 15 +
\* payload_len bytes in all, and its result is the decoded body or a
\* decode failure.
C12_PayloadStep ==
    \A h \in MessageHeaders :
        (Ended /\ HasPayload(h) /\ BeginsWith(h))
            => /\ reader.position = 4 + 15 + h.payload_len[4]
               /\ \/ ret.tag = "Ok"
                  \/ ret.tag = "Err" /\ ret.category = "Decode"

\* C13: for a valid magic and a header that lacks HAS_PAYLOAD or has
\* payload_len = 0, read_message returns an empty body and has consumed
\* exactly the 4 magic bytes and the 15 header bytes.
C13_NoPayload ==
    \A h \in MessageHeaders :
        (Ended /\ ~HasPayload(h) /\ BeginsWith(h))
            => /\ ret = Ok(Unit)
               /\ reader.position = 4 + 15

\* C15: if the stream ends before the 4 magic bytes, or after a valid magic
\* before the 15 header bytes, or after a header with HAS_PAYLOAD and
\* payload_len = N > 0 before the N body bytes, read_message returns an I/O
\* failure.
C15_Truncated ==
    LET n == Len(reader.data)
        shortMagic == n < 4
        shortHeader ==
            n >= 4 /\ n < 4 + 15 /\ SubSeq(reader.data, 1, 4) = <<78, 69, 88, 0>>
        shortBody ==
            \E h \in MessageHeaders :
                /\ HasPayload(h)
                /\ n >= 4 + 15
                /\ n < Len(Message(h))
                /\ reader.data = SubSeq(Message(h), 1, n)
    IN  (Ended /\ (shortMagic \/ shortHeader \/ shortBody))
            => ret.tag = "Err" /\ ret.category = "Io"

\* C16: whatever the stream holds, read_message ends by returning a body or
\* a ProtocolError (Io or Decode) to its caller; it never panics.
C16_NoPanic ==
    /\ pc # "panicked"
    /\ Ended => \/ ret.tag = "Ok"
                \/ ret.tag = "Err" /\ ret.category \in {"Io", "Decode"}

\* C14: every write_message writes the 4 magic bytes, then the frame's 15
\* header bytes, then the encoded body, after all bytes of the messages
\* written before it.
C14_WriteProtocol ==
    [][calls' = calls + 1 =>
        writer' = writer \o <<78, 69, 88, 0>> \o frame'.header \o frame'.body]_vars

\* bit i (0..15) of a 16-bit mask
FlagBit(x, i) == ((IF i < 8 THEN x[2] ELSE x[1]) \div Pow2(i % 8)) % 2

\* C17: a.contains(b) iff every bit of b is set in a, so a.contains(NONE)
\* and (a | b).contains(a) always hold; | is the bitwise or, associative,
\* commutative and idempotent; is_empty(a) iff a is the zero mask; a mask
\* made from a raw u16 gives that u16 back.
C17_FlagsAlgebra ==
    pc = "flags.done" =>
        LET a == masks[1]
            b == masks[2]
            c == masks[3]
        IN  /\ ret.contains_ab
                = (\A i \in 0..15 : FlagBit(b, i) = 1 => FlagBit(a, i) = 1)
            /\ ret.contains_ac
                = (\A i \in 0..15 : FlagBit(c, i) = 1 => FlagBit(a, i) = 1)
            /\ ret.contains_none
            /\ ret.contains_or
            /\ \A i \in 0..15 :
                    FlagBit(ret.or_ab, i)
                        = (IF FlagBit(a, i) = 1 \/ FlagBit(b, i) = 1 THEN 1 ELSE 0)
            /\ ret.or_ab = ret.or_ba
            /\ ret.or_ab_c = ret.or_a_bc
            /\ ret.or_aa = a
            /\ ret.empty_a = (\A i \in 0..15 : FlagBit(a, i) = 0)
            /\ ret.raw_a = a

C17_Witness ==
    /\ pc = "flags.done"
    /\ masks = <<<<0, 3>>, <<0, 2>>, <<0, 8>>>>
    /\ ret.contains_ab
    /\ ~ret.contains_ac
    /\ ret.or_ab_c = <<0, 11>>

\* C18: Header::new stores its five values as given, and for every Header
\* with any 8-bit id and version, parse(serialize(h)) is the Header with
\* id = h.id & 0x3F, version = h.version & 0x03 and the other three fields
\* of h.
C18_MaskOnlyOnWire ==
    (pc = "parsed" /\ wire.by = "Standard" /\ backend = "Standard")
        => parsed["Standard"].value
            = Some(Header(hdr.id % 64, hdr.version % 4, hdr.flags,
                          hdr.payload_len, hdr.sequence_number))

\* C19: for every 15-byte array b, serialize(parse(b)) = b.
C19_BytesRoundTrip ==
    (pc = "reserialized" /\ Len(buf) = 15
        /\ backend \in {"Standard", "Optimized"})
        => wire.bytes = buf

\* C20: on a stream that is two well-formed messages back to back, the
\* successive read_message calls all succeed, the first starts at byte 0 and
\* ends at the end of the first message, the second starts there and ends
\* at the end of the stream.
C20_Boundaries ==
    \A h1, h2 \in MessageHeaders :
        reader.data = Message(h1) \o Message(h2) =>
            /\ pc # "panicked"
            /\ calls <= 1
            /\ (pc = "returned" =>
                    /\ ret.tag = "Ok"
                    /\ reader.position
                        = (IF calls = 0 THEN Len(Message(h1))
                           ELSE Len(reader.data)))
            /\ ((pc = "magic.read_exact" /\ rx.filled = 0) =>
                    reader.position = (IF calls = 0 THEN 0 ELSE Len(Message(h1))))

====
